---- MODULE Spec2Model ----
(***************************************************************************)
(* Model of src/src/server.py: five MCP tools.  Four of them run a SQL     *)
(* query on the warehouse (execute_bigquery, get_client_details,           *)
(* get_client_datasets, get_dataset_tables); the fifth, get_clickup_task,  *)
(* issues one or two HTTP GETs.  Every tool wraps its body in one          *)
(* try/except that turns exceptions into a response dict.                  *)
(*                                                                         *)
(* One invocation is in flight at a time (the tools share no mutable       *)
(* state).  Each call of an external collaborator is one step: the         *)
(* collaborator either answers or raises, and the code that follows it up  *)
(* to the next collaborator call (including the except clauses) is part of *)
(* the same step.                                                          *)
(***************************************************************************)
EXTENDS Integers, Sequences, FiniteSets, TLC

VARIABLES
    env,           \* os.environ at import time: GOOGLE_PROJECT_ID, GOOGLE_APPLICATION_CREDENTIALS
    pc,            \* position of the invocation in flight
    tool,          \* name of the tool invoked
    args,          \* its arguments, defaults already bound
    passed,        \* names of the optional parameters the caller passed explicitly
    calls,         \* log of the calls made to external collaborators, in order
    sql,           \* query text built by the tool (sequence of text pieces)
    yielded,       \* rows the cursor has yielded so far, in order
    results_list,  \* the list the comprehension is building
    drain,         \* "notstarted", "started", "exhausted", "failed"
    fault,         \* the failure that ended the body, or NoFault
    task_data,     \* decoded primary payload of get_clickup_task
    ret            \* the dict returned by the tool

vars == << env, pc, tool, args, passed, calls, sql, yielded, results_list,
           drain, fault, task_data, ret >>

-----------------------------------------------------------------------------
(* Bound of the model: the longest cursor considered. *)
MaxRows == 2

-----------------------------------------------------------------------------
(* Python values whose type matters to the code: None, str, int. *)
PyNone == [py |-> "NoneType"]
PyStr(s) == [py |-> "str", s |-> s]
PyInt(n) == [py |-> "int", n |-> n]
(* getattr found no such attribute *)
Absent == [py |-> "absent"]

(* bool(v) as used by if v: *)
Truthy(v) == /\ v.py # "NoneType"
             /\ (v.py = "str" => v.s # "")

(* str(v) as used when v is interpolated into an f-string *)
FStr(v) == IF v.py = "NoneType" THEN "None" ELSE v.s

(* os.environ.get(name): the value, or None when the variable is unset *)
EnvGet(e, name) == IF name \in DOMAIN e THEN PyStr(e[name]) ELSE PyNone

DEFAULT_SERVICE_ACCOUNT_PATH == EnvGet(env, "GOOGLE_APPLICATION_CREDENTIALS")
DEFAULT_PROJECT_ID == EnvGet(env, "GOOGLE_PROJECT_ID")

(* Environments the server may be started in. *)
Envs == { [x \in {} |-> ""],
          [GOOGLE_PROJECT_ID |-> "envproj"],
          [GOOGLE_APPLICATION_CREDENTIALS |-> "sa.json"],
          [GOOGLE_PROJECT_ID |-> "envproj", GOOGLE_APPLICATION_CREDENTIALS |-> "sa.json"] }

WarehouseTools == { "execute_bigquery", "get_client_details",
                    "get_client_datasets", "get_dataset_tables" }
Tools == WarehouseTools \cup { "get_clickup_task" }

-----------------------------------------------------------------------------
(* Text.  A text is a sequence of pieces; interpolated values are pieces. *)

RECURSIVE Join(_, _)
(* sep.join(parts), parts a sequence of texts *)
Join(sep, parts) ==
    IF parts = << >> THEN << >>
    ELSE IF Len(parts) = 1 THEN parts[1]
    ELSE parts[1] \o sep \o Join(sep, Tail(parts))

-----------------------------------------------------------------------------
(* Failures.  A failure has a class, the value of its code attribute     *)
(* (Absent when the class defines none) and a message, str(e).             *)

Exc(cls, code, msg) == [cls |-> cls, code |-> code, msg |-> msg]
NoFault == [cls |-> "none"]

(* The classes a failure is an instance of (its class and its bases).      *)
Bases(cls) ==
    CASE cls = "NotFound"           -> { "NotFound", "GoogleAPICallError", "GoogleAPIError", "Exception" }
      [] cls = "Forbidden"          -> { "Forbidden", "GoogleAPICallError", "GoogleAPIError", "Exception" }
      [] cls = "GoogleAPICallError" -> { "GoogleAPICallError", "GoogleAPIError", "Exception" }
      [] cls = "RetryError"         -> { "RetryError", "GoogleAPIError", "Exception" }
      [] cls = "HTTPError"          -> { "HTTPError", "RequestException", "OSError", "Exception" }
      [] cls = "ConnectionError"    -> { "ConnectionError", "RequestException", "OSError", "Exception" }
      [] cls = "ReadTimeout"        -> { "ReadTimeout", "RequestException", "OSError", "Exception" }
      [] cls = "JSONDecodeError"    -> { "JSONDecodeError", "RequestException", "ValueError", "Exception" }
      [] cls = "ValueError"         -> { "ValueError", "Exception" }
      [] cls = "TypeError"          -> { "TypeError", "Exception" }
      [] cls = "OSError"            -> { "OSError", "Exception" }

IsInstance(e, cls) == cls \in Bases(e.cls)

(* getattr(e, "code", default): the attribute when the object has one,     *)
(* whatever its value; the default only when it has none.                  *)
GetAttrCode(e, default) == IF e.code = Absent THEN default ELSE e.code

(* Failures of credential loading and client construction: local errors    *)
(* (unreadable or malformed key file, no usable default credentials).      *)
LocalExcs == { Exc("OSError", Absent, "no such file"),
               Exc("ValueError", Absent, "malformed key file") }

(* Failures of the warehouse service: query submission, result fetch, row  *)
(* draining.  NotFound and Forbidden carry their HTTP status as code;    *)
(* GoogleAPICallError itself declares code = None; RetryError derives    *)
(* from GoogleAPIError directly and has no code attribute.               *)
VendorExcs == { Exc("NotFound", PyInt(404), "404 no such dataset"),
                Exc("Forbidden", PyInt(403), "403 access denied"),
                Exc("GoogleAPICallError", PyNone, "call failed"),
                Exc("RetryError", Absent, "deadline exceeded"),
                Exc("OSError", Absent, "connection reset") }

-----------------------------------------------------------------------------
(* Query texts.  The backquotes that delimit table paths are left out.      *)

ORDER_BY_UPDATED == << " ORDER BY updated_at DESC" >>
LIMIT_1000 == << " LIMIT 1000" >>
WHERE == << " WHERE " >>
AND == << " AND " >>

(* base_query of get_client_details: the two deduplicating CTEs and the join *)
ClientDetailsBase ==
    << "WITH sources AS (SELECT updated_at, client_id, client_name, sources FROM insightsprod.edm_insights_metadata.client QUALIFY ROW_NUMBER() OVER (PARTITION BY client_id, client_name ORDER BY updated_at DESC) = 1 ORDER BY updated_at DESC), git as (select client_id, git_url from insightsprod.edm_insights_metadata.client_git qualify row_number() OVER (partition by client_id order by updated_at desc) = 1), final AS (SELECT src.*, g.git_url FROM sources as src left join git as g on src.client_id = g.client_id) SELECT * FROM final" >>

ClientIdClause(client_id) == << "client_id = ", client_id >>
ClientNameClause(client_name) == << "LOWER(client_name) LIKE LOWER('%", client_name, "%')" >>

(* WhereClauses with the two tests in the other order *)
WhereClauses_NameFirst(client_id, client_name) ==
    (IF client_name # "" THEN << ClientNameClause(client_name) >> ELSE << >>)
    \o (IF client_id # "" THEN << ClientIdClause(client_id) >> ELSE << >>)

(* where_clauses of get_client_details *)
WhereClauses(client_id, client_name) ==
    (IF client_id # "" THEN << ClientIdClause(client_id) >> ELSE << >>)
    \o (IF client_name # "" THEN << ClientNameClause(client_name) >> ELSE << >>)

ClientDetailsQuery(client_id, client_name) ==
    LET where_clauses == WhereClauses(client_id, client_name)
    IN  ClientDetailsBase
        \o (IF where_clauses # << >> THEN WHERE \o Join(AND, where_clauses) ELSE << >>)
        \o ORDER_BY_UPDATED
        \o LIMIT_1000

SchemaNameLike(v) == << "schema_name LIKE '%", v, "%'" >>
ORDER_BY_MODIFIED == << " ORDER BY last_modified_time DESC" >>

(* ClientFilter without the final else: the filter stays empty *)
ClientFilter_NoRefusal(client_id, client_name) ==
    IF client_id # "" THEN [ok |-> TRUE, text |-> SchemaNameLike(client_id)]
    ELSE IF client_name # "" THEN [ok |-> TRUE, text |-> SchemaNameLike(client_name)]
    ELSE [ok |-> TRUE, text |-> << >>]

(* ClientFilter testing client_name first *)
ClientFilter_NameFirst(client_id, client_name) ==
    IF client_name # "" THEN [ok |-> TRUE, text |-> SchemaNameLike(client_name)]
    ELSE IF client_id # "" THEN [ok |-> TRUE, text |-> SchemaNameLike(client_id)]
    ELSE [ok |-> FALSE,
          exc |-> Exc("ValueError", Absent, "Either client_id or client_name must be provided.")]

(* client_filter of get_client_datasets, or the ValueError it raises *)
ClientFilter(client_id, client_name) ==
    IF client_id # "" THEN [ok |-> TRUE, text |-> SchemaNameLike(client_id)]
    ELSE IF client_name # "" THEN [ok |-> TRUE, text |-> SchemaNameLike(client_name)]
    ELSE [ok |-> FALSE,
          exc |-> Exc("ValueError", Absent, "Either client_id or client_name must be provided.")]

ClientDatasetsQuery(client_filter) ==
    << "SELECT schema_name AS dataset_id, catalog_name AS project_id, creation_time, last_modified_time, location FROM ",
       FStr(DEFAULT_PROJECT_ID), ".region-us-central1.INFORMATION_SCHEMA.SCHEMATA" >>
    \o WHERE \o client_filter \o ORDER_BY_MODIFIED

(* the table path {project_id}.{dataset_id}.INFORMATION_SCHEMA.TABLES *)
TablePath(project_id, dataset_id) ==
    << FStr(project_id), ".", dataset_id, ".INFORMATION_SCHEMA.TABLES" >>

ORDER_BY_TABLE == << " ORDER BY table_name" >>

DatasetTablesQuery(project_id, dataset_id) ==
    << "SELECT table_catalog, table_schema, table_name, table_type, is_insertable_into, is_typed, creation_time, ddl FROM " >>
    \o TablePath(project_id, dataset_id) \o ORDER_BY_TABLE

(* The query a warehouse tool builds between client construction and       *)
(* submission: the text, or the failure raised while building it.          *)
BuildQuery(t, a) ==
    CASE t = "execute_bigquery"    -> [ok |-> TRUE, text |-> << a.query >>]
      [] t = "get_client_details"  -> [ok |-> TRUE, text |-> ClientDetailsQuery(a.client_id, a.client_name)]
      [] t = "get_client_datasets" ->
            LET f == ClientFilter(a.client_id, a.client_name)
            IN  IF f.ok THEN [ok |-> TRUE, text |-> ClientDatasetsQuery(f.text)] ELSE f
      [] t = "get_dataset_tables"  -> [ok |-> TRUE, text |-> DatasetTablesQuery(a.project_id, a.dataset_id)]

(* The project the client is constructed under and the query submitted under *)
ProjectOf(t, a) == IF t = "get_dataset_tables" THEN a.project_id ELSE DEFAULT_PROJECT_ID

-----------------------------------------------------------------------------
(* The except clauses of the warehouse tools. *)

NotFoundPrefix(t, a) ==
    CASE t = "execute_bigquery"    -> << "Dataset or table not found: " >>
      [] t = "get_client_details"  -> << "Client metadata tables not found: " >>
      [] t = "get_client_datasets" -> << "Dataset information not found: " >>
      [] t = "get_dataset_tables"  -> << "Dataset '", a.dataset_id, "' not found: " >>

Failure(error, message, code) ==
    [success |-> FALSE, error |-> error, message |-> message, code |-> code]

(* WarehouseExcept without its last clause, `except Exception` *)
WarehouseExcept_NoCatchAll(t, a, e) ==
    IF IsInstance(e, "NotFound")
    THEN [caught |-> TRUE,
          ret |-> Failure("Not Found", NotFoundPrefix(t, a) \o << e.msg >>, PyInt(404))]
    ELSE IF IsInstance(e, "GoogleAPIError")
    THEN [caught |-> TRUE,
          ret |-> Failure("Google API Error", << e.msg >>, GetAttrCode(e, PyInt(500)))]
    ELSE [caught |-> FALSE]

(* What the try statement of a warehouse tool does with failure e: the     *)
(* first matching clause returns; a failure no clause matches propagates.  *)
WarehouseExcept(t, a, e) ==
    IF IsInstance(e, "NotFound")
    THEN [caught |-> TRUE,
          ret |-> Failure("Not Found", NotFoundPrefix(t, a) \o << e.msg >>, PyInt(404))]
    ELSE IF IsInstance(e, "GoogleAPIError")
    THEN [caught |-> TRUE,
          ret |-> Failure("Google API Error", << e.msg >>, GetAttrCode(e, PyInt(500)))]
    ELSE IF IsInstance(e, "Exception")
    THEN [caught |-> TRUE,
          ret |-> Failure("Execution Error", << e.msg >>, PyInt(500))]
    ELSE [caught |-> FALSE]

-----------------------------------------------------------------------------
(* Rows and cursors. *)

(* The rows a cursor may yield: a row is its column names and its values.  *)
Rows == { [keys |-> << "table_name" >>, values |-> << "orders" >>],
          [keys |-> << "table_name" >>, values |-> << "users" >>] }

(* dict(row): the mapping from each column name to the row's value for it  *)
Dict(row) ==
    [k \in { row.keys[i] : i \in 1..Len(row.keys) } |->
        row.values[CHOOSE i \in 1..Len(row.keys) : row.keys[i] = k]]

(* Collect putting the converted row first *)
Collect_Prepend(list, row) == << Dict(row) >> \o list

(* one iteration of the comprehension: the converted row goes last *)
Collect(list, row) == Append(list, Dict(row))

Success(results) == [success |-> TRUE, results |-> results]

-----------------------------------------------------------------------------
(* Invocations. *)

NoRet == [none |-> TRUE]

(* service_account_path: the default read from the environment when the    *)
(* caller passes none.                                                     *)
ServiceAccountPaths == { [v |-> DEFAULT_SERVICE_ACCOUNT_PATH, passed |-> {}],
                         [v |-> PyStr("key.json"), passed |-> { "service_account_path" }] }

(* project_id of get_dataset_tables: the default when the caller passes none *)
ProjectIds == { [v |-> DEFAULT_PROJECT_ID, passed |-> {}],
                [v |-> PyStr("otherproj"), passed |-> { "project_id" }] }

ClientIds == { "", "42" }
ClientNames == { "", "acme" }

(* The argument bindings of a call of tool t, with the set of optional     *)
(* parameters the caller passed.                                           *)
Invocations(t) ==
    CASE t = "execute_bigquery" ->
            { [args |-> [query |-> "SELECT 1", service_account_path |-> sa.v],
               passed |-> sa.passed] : sa \in ServiceAccountPaths }
      [] t \in { "get_client_details", "get_client_datasets" } ->
            { [args |-> [client_id |-> ci, client_name |-> cn, service_account_path |-> sa.v],
               passed |-> sa.passed] :
                 ci \in ClientIds, cn \in ClientNames, sa \in ServiceAccountPaths }
      [] t = "get_dataset_tables" ->
            { [args |-> [dataset_id |-> "ds1", project_id |-> p.v, service_account_path |-> sa.v],
               passed |-> p.passed \cup sa.passed] :
                 p \in ProjectIds, sa \in ServiceAccountPaths }
      [] t = "get_clickup_task" ->
            { [args |-> [task_id |-> "86abc", api_key |-> "pk_1",
                         include_subtasks |-> s, include_comments |-> c],
               passed |-> {}] : s \in BOOLEAN, c \in BOOLEAN }

Init ==
    /\ env \in Envs
    /\ pc = "idle"
    /\ tool = ""
    /\ args = << >>
    /\ passed = {}
    /\ calls = << >>
    /\ sql = << >>
    /\ yielded = << >>
    /\ results_list = << >>
    /\ drain = "notstarted"
    /\ fault = NoFault
    /\ task_data = << >>
    /\ ret = NoRet

(* A caller invokes a tool.  A warehouse tool first loads credentials when *)
(* service_account_path is truthy, and goes straight to client             *)
(* construction otherwise.                                                 *)
Invoke ==
    /\ pc = "idle"
    /\ \E t \in Tools : \E i \in Invocations(t) :
          /\ tool' = t
          /\ args' = i.args
          /\ passed' = i.passed
          /\ pc' = IF t = "get_clickup_task" THEN "get_task"
                   ELSE IF Truthy(i.args.service_account_path) THEN "credentials"
                   ELSE "client"
    /\ UNCHANGED << env, calls, sql, yielded, results_list, drain, fault, task_data, ret >>

(* The body of a warehouse tool ends with failure e: the except clauses    *)
(* decide what the tool returns.                                           *)
WarehouseFails(e) ==
    LET h == WarehouseExcept(tool, args, e)
    IN  /\ fault' = e
        /\ pc' = IF h.caught THEN "done" ELSE "raised"
        /\ ret' = IF h.caught THEN h.ret ELSE NoRet

(* service_account.Credentials.from_service_account_file(path, scopes) *)
Credentials ==
    /\ pc = "credentials"
    /\ tool \in WarehouseTools
    /\ calls' = Append(calls, [op |-> "from_service_account_file",
                               path |-> args.service_account_path])
    /\ \E out \in { NoFault } \cup LocalExcs :
          IF out = NoFault
          THEN pc' = "client" /\ UNCHANGED << fault, ret >>
          ELSE WarehouseFails(out)
    /\ UNCHANGED << env, tool, args, passed, sql, yielded, results_list, drain, task_data >>

(* bigquery.Client(project=..., [credentials=...]), then the construction  *)
(* of the query text, which get_client_datasets may refuse.                *)
Client ==
    /\ pc = "client"
    /\ tool \in WarehouseTools
    /\ calls' = Append(calls, [op |-> "Client",
                               project |-> ProjectOf(tool, args),
                               credentials |-> Truthy(args.service_account_path)])
    /\ \E out \in { NoFault } \cup LocalExcs :
          IF out = NoFault
          THEN LET b == BuildQuery(tool, args)
               IN  IF b.ok
                   THEN pc' = "query" /\ sql' = b.text /\ UNCHANGED << fault, ret >>
                   ELSE WarehouseFails(b.exc) /\ UNCHANGED sql
          ELSE WarehouseFails(out) /\ UNCHANGED sql
    /\ UNCHANGED << env, tool, args, passed, yielded, results_list, drain, task_data >>

(* client.query(text, project=...) *)
Query ==
    /\ pc = "query"
    /\ calls' = Append(calls, [op |-> "query", text |-> sql,
                               project |-> ProjectOf(tool, args)])
    /\ \E out \in { NoFault } \cup VendorExcs :
          IF out = NoFault
          THEN pc' = "result" /\ UNCHANGED << fault, ret >>
          ELSE WarehouseFails(out)
    /\ UNCHANGED << env, tool, args, passed, sql, yielded, results_list, drain, task_data >>

(* query_job.result() *)
Result ==
    /\ pc = "result"
    /\ calls' = Append(calls, [op |-> "result"])
    /\ \E out \in { NoFault } \cup VendorExcs :
          IF out = NoFault
          THEN pc' = "drain" /\ UNCHANGED << fault, ret >>
          ELSE WarehouseFails(out)
    /\ UNCHANGED << env, tool, args, passed, sql, yielded, results_list, drain, task_data >>

(* One iteration of [dict(row) for row in results]: the cursor yields a    *)
(* row, which is converted and appended; or it is exhausted, and the tool  *)
(* returns the list; or fetching the next row fails.                       *)
Drain ==
    /\ pc = "drain"
    /\ \/ /\ Len(yielded) < MaxRows
          /\ \E row \in Rows :
                /\ yielded' = Append(yielded, row)
                /\ results_list' = Collect(results_list, row)
          /\ drain' = "started"
          /\ UNCHANGED << pc, fault, ret >>
       \/ /\ drain' = "exhausted"
          /\ pc' = "done"
          /\ ret' = Success(results_list)
          /\ UNCHANGED << yielded, results_list, fault >>
       \/ /\ \E e \in VendorExcs : WarehouseFails(e)
          /\ drain' = "failed"
          /\ UNCHANGED << yielded, results_list >>
    /\ UNCHANGED << env, tool, args, passed, calls, sql, task_data >>

-----------------------------------------------------------------------------
(* get_clickup_task. *)

(* A response body: text that response.json() decodes to a dict, or text   *)
(* that it cannot decode.                                                  *)
Json(d) == [decodable |-> TRUE, json |-> d]
Undecodable == [decodable |-> FALSE]

Response(status, body) == [status_code |-> status, body |-> body]

(* Answers to the GET on the task: the task with or without embedded       *)
(* comments, an undecodable 200, and error statuses with and without a     *)
(* decodable error body.                                                   *)
TaskResponses ==
    { Response(200, Json([id |-> "86abc"])),
      Response(200, Json([id |-> "86abc", comments |-> << "embedded" >>])),
      Response(200, Undecodable) }
    \cup { Response(st, b) : st \in { 400, 401, 404, 429, 500 },
                             b \in { Json([err |-> "upstream says no"]), Undecodable } }

(* Answers to the GET on the comments of the task *)
CommentsResponses ==
    { Response(st, b) : st \in { 200, 404, 500 },
                        b \in { Json([comments |-> << "fetched" >>]),
                                Json([x \in {} |-> << >>]),
                                Undecodable } }

(* Failures of requests.get itself *)
TransportExcs == { Exc("ConnectionError", Absent, "name resolution failed"),
                   Exc("ReadTimeout", Absent, "read timed out") }

(* response.raise_for_status(): HTTPError for 4xx and 5xx, carrying the response *)
RaiseForStatus(r) ==
    IF 400 <= r.status_code /\ r.status_code < 600
    THEN [cls |-> "HTTPError", code |-> Absent, msg |-> "http error for url", response |-> r]
    ELSE NoFault

(* response.json(): the decoded body, or JSONDecodeError *)
ResponseJson(r) ==
    IF r.body.decodable
    THEN [ok |-> TRUE, json |-> r.body.json]
    ELSE [ok |-> FALSE, exc |-> Exc("JSONDecodeError", Absent, "Expecting value")]

(* d.get(key, default) *)
DictGet(d, key, default) == IF key \in DOMAIN d THEN d[key] ELSE default

(* d[key] = value *)
DictSet(d, key, value) == [k \in DOMAIN d \cup { key } |-> IF k = key THEN value ELSE d[k]]

TaskUrl(task_id) == << "https://api.clickup.com/api/v2/task/", task_id >>
CommentsUrl(task_id) == TaskUrl(task_id) \o << "/comment" >>

(* params of the first GET *)
TaskParams(include_subtasks) ==
    IF include_subtasks THEN [include_subtasks |-> "true"] ELSE [x \in {} |-> ""]

Headers(api_key) == ("Authorization" :> api_key) @@ ("Content-Type" :> "application/json")

(* WantsComments without the test for an embedded comments field *)
WantsComments_Always(include_comments, data) == include_comments

(* the test: include_comments and "comments" not in task_data *)
WantsComments(include_comments, data) == include_comments /\ "comments" \notin DOMAIN data

TaskSuccess(data) == [success |-> TRUE, result |-> data]

(* error_message of the HTTPError clause: str(e), replaced by the "err"    *)
(* field of the response body when the body decodes and has one; a body    *)
(* that does not decode is ignored.                                        *)
ErrorMessage(e) ==
    LET j == ResponseJson(e.response)
    IN  IF j.ok /\ "err" \in DOMAIN j.json THEN << j.json["err"] >> ELSE << e.msg >>

(* ClickupExcept without the 404 branch of the HTTPError clause *)
ClickupExcept_No404(a, e) ==
    IF IsInstance(e, "HTTPError")
    THEN LET status_code == e.response.status_code
         IN  [caught |-> TRUE,
              ret |-> IF status_code = 401
                      THEN Failure("Authentication Error",
                                   << "Invalid API key or unauthorized access" >>, PyInt(401))
                      ELSE Failure("ClickUp API Error", ErrorMessage(e), PyInt(status_code))]
    ELSE IF IsInstance(e, "ConnectionError")
    THEN [caught |-> TRUE,
          ret |-> Failure("Connection Error",
                          << "Failed to connect to the ClickUp API. Please check your internet connection." >>,
                          PyInt(503))]
    ELSE IF IsInstance(e, "Exception")
    THEN [caught |-> TRUE,
          ret |-> Failure("Execution Error", << e.msg >>, PyInt(500))]
    ELSE [caught |-> FALSE]

(* The except clauses of get_clickup_task *)
ClickupExcept(a, e) ==
    IF IsInstance(e, "HTTPError")
    THEN LET status_code == e.response.status_code
         IN  [caught |-> TRUE,
              ret |-> IF status_code = 401
                      THEN Failure("Authentication Error",
                                   << "Invalid API key or unauthorized access" >>, PyInt(401))
                      ELSE IF status_code = 404
                      THEN Failure("Not Found",
                                   << "Task with ID '", a.task_id, "' not found" >>, PyInt(404))
                      ELSE Failure("ClickUp API Error", ErrorMessage(e), PyInt(status_code))]
    ELSE IF IsInstance(e, "ConnectionError")
    THEN [caught |-> TRUE,
          ret |-> Failure("Connection Error",
                          << "Failed to connect to the ClickUp API. Please check your internet connection." >>,
                          PyInt(503))]
    ELSE IF IsInstance(e, "Exception")
    THEN [caught |-> TRUE,
          ret |-> Failure("Execution Error", << e.msg >>, PyInt(500))]
    ELSE [caught |-> FALSE]

ClickupFails(e) ==
    LET h == ClickupExcept(args, e)
    IN  /\ fault' = e
        /\ pc' = IF h.caught THEN "done" ELSE "raised"
        /\ ret' = IF h.caught THEN h.ret ELSE NoRet

(* What came back from a GET: a failure of requests.get, or a response *)
Raised(e) == [raised |-> TRUE, exc |-> e]
Answered(r) == [raised |-> FALSE, response |-> r]

(* The log entry of requests.get(base_url, headers=headers, params=params) *)
TaskCall(a, answer) ==
    [op |-> "GET", url |-> TaskUrl(a.task_id), headers |-> Headers(a.api_key),
     params |-> TaskParams(a.include_subtasks), answer |-> answer]

(* The log entry of requests.get(comments_url, headers=headers) *)
CommentsCall(a, answer) ==
    [op |-> "GET", url |-> CommentsUrl(a.task_id), headers |-> Headers(a.api_key),
     params |-> [x \in {} |-> ""], answer |-> answer]

(* requests.get(base_url, headers, params) and the code up to the second   *)
(* GET: raise_for_status, json, and the test for comments.                 *)
GetTask ==
    /\ pc = "get_task"
    /\ \/ \E e \in TransportExcs :
             /\ calls' = Append(calls, TaskCall(args, Raised(e)))
             /\ ClickupFails(e)
             /\ UNCHANGED task_data
       \/ \E response \in TaskResponses :
             LET h == RaiseForStatus(response)
                 j == ResponseJson(response)
             IN  /\ calls' = Append(calls, TaskCall(args, Answered(response)))
                 /\ IF h # NoFault THEN ClickupFails(h) /\ UNCHANGED task_data
                    ELSE IF ~ j.ok THEN ClickupFails(j.exc) /\ UNCHANGED task_data
                    ELSE /\ task_data' = j.json
                         /\ fault' = NoFault
                         /\ IF WantsComments(args.include_comments, j.json)
                            THEN pc' = "get_comments" /\ UNCHANGED ret
                            ELSE pc' = "done" /\ ret' = TaskSuccess(j.json)
    /\ UNCHANGED << env, tool, args, passed, sql, yielded, results_list, drain >>

(* task_data["comments"] = comments_data.get("comments", []) *)
MergeComments(data, comments_data) ==
    DictSet(data, "comments", DictGet(comments_data, "comments", << >>))

(* requests.get(comments_url, headers) and the rest of the body: the       *)
(* comments are merged when the status is 200.                             *)
GetComments ==
    /\ pc = "get_comments"
    /\ \/ \E e \in TransportExcs :
             /\ calls' = Append(calls, CommentsCall(args, Raised(e)))
             /\ ClickupFails(e)
             /\ UNCHANGED task_data
       \/ \E comments_response \in CommentsResponses :
             /\ calls' = Append(calls, CommentsCall(args, Answered(comments_response)))
             /\ IF comments_response.status_code = 200
                THEN LET j == ResponseJson(comments_response)
                     IN  IF ~ j.ok THEN ClickupFails(j.exc) /\ UNCHANGED task_data
                         ELSE /\ task_data' = MergeComments(task_data, j.json)
                              /\ pc' = "done"
                              /\ ret' = TaskSuccess(MergeComments(task_data, j.json))
                              /\ UNCHANGED fault
                ELSE /\ pc' = "done"
                     /\ ret' = TaskSuccess(task_data)
                     /\ UNCHANGED << task_data, fault >>
    /\ UNCHANGED << env, tool, args, passed, sql, yielded, results_list, drain >>

(* The tool has returned (or its failure has propagated): the next         *)
(* invocation starts from scratch, nothing is kept between invocations.    *)
Return ==
    /\ pc \in { "done", "raised" }
    /\ pc' = "idle"
    /\ tool' = ""
    /\ args' = << >>
    /\ passed' = {}
    /\ calls' = << >>
    /\ sql' = << >>
    /\ yielded' = << >>
    /\ results_list' = << >>
    /\ drain' = "notstarted"
    /\ fault' = NoFault
    /\ task_data' = << >>
    /\ ret' = NoRet
    /\ UNCHANGED env

Next ==
    \/ Invoke
    \/ Credentials
    \/ Client
    \/ Query
    \/ Result
    \/ Drain
    \/ GetTask
    \/ GetComments
    \/ Return

Spec == Init /\ [][Next]_vars

-----------------------------------------------------------------------------
(* Properties. *)

Done == pc = "done"

(* text t ends with text s *)
EndsWith(t, s) ==
    /\ Len(t) >= Len(s)
    /\ SubSeq(t, Len(t) - Len(s) + 1, Len(t)) = s

(* text s occurs in text t starting at position i *)
OccursAt(t, s, i) ==
    /\ i >= 1
    /\ i + Len(s) - 1 <= Len(t)
    /\ SubSeq(t, i, i + Len(s) - 1) = s

Occurrences(t, s) == { i \in 1..Len(t) : OccursAt(t, s, i) }
Contains(t, s) == Occurrences(t, s) # {}

(* The calls of the log whose operation is op *)
CallsOf(op) == SelectSeq(calls, LAMBDA c : c.op = op)

IsSuccessEnvelope(r) ==
    /\ r.success = TRUE
    /\ DOMAIN r \in { { "success", "results" }, { "success", "result" } }

IsFailureEnvelope(r) ==
    /\ r.success = FALSE
    /\ DOMAIN r = { "success", "error", "message", "code" }

(* C1: whatever tool is invoked and whichever collaborator call fails, at  *)
(* whichever step, no exception crosses the tool boundary: the invocation  *)
(* never ends by propagating a failure, and what it returns is a Success   *)
(* or a Failure with error, message and code.                              *)
C1_NoExceptionCrosses ==
    /\ pc # "raised"
    /\ Done => (IsSuccessEnvelope(ret) \/ IsFailureEnvelope(ret))

(* C1 witness: an HTTP error whose body does not decode, so that the       *)
(* handler's own attempt to read the body failed, and a Failure came back. *)
C1_Witness ==
    /\ Done
    /\ tool = "get_clickup_task"
    /\ fault.cls = "HTTPError"
    /\ ~ fault.response.body.decodable
    /\ IsFailureEnvelope(ret)

NoFilter ==
    /\ tool = "get_client_datasets"
    /\ args.client_id = ""
    /\ args.client_name = ""

(* C2 as stated: get_client_datasets with client_id and client_name both   *)
(* empty returns Execution Error / 500, submits no query, and is rejected  *)
(* before any interaction with an external collaborator.                   *)
C2_RejectedBeforeAnyCollaborator ==
    NoFilter =>
        /\ calls = << >>
        /\ Done => (~ ret.success /\ ret.error = "Execution Error" /\ ret.code = PyInt(500))

(* C2 amended: get_client_datasets with client_id and client_name both     *)
(* empty returns Execution Error / 500 and never submits a query; the      *)
(* refusal itself comes after client construction (and after credential    *)
(* loading when a service-account path is in force), which are the only    *)
(* collaborator calls on that path.                                        *)
C2_RejectedBeforeQuery ==
    NoFilter =>
        /\ \A i \in 1..Len(calls) : calls[i].op \in { "from_service_account_file", "Client" }
        /\ Done => (~ ret.success /\ ret.error = "Execution Error" /\ ret.code = PyInt(500))
        /\ (Done /\ fault \notin LocalExcs) =>
              /\ fault = ClientFilter("", "").exc
              /\ calls[Len(calls)].op = "Client"
              /\ Len(CallsOf("from_service_account_file"))
                    = IF Truthy(args.service_account_path) THEN 1 ELSE 0

(* C2 witness: the refusal has happened, with credentials loaded before it *)
C2_Witness ==
    /\ NoFilter
    /\ Done
    /\ fault.cls = "ValueError"
    /\ fault \notin LocalExcs
    /\ Len(calls) = 2

Clickup == tool = "get_clickup_task"

(* The primary GET succeeded: requests.get returned, the status is no      *)
(* error status, and the body decoded.                                     *)
PrimarySucceeded(c) ==
    /\ ~ c.answer.raised
    /\ ~ (400 <= c.answer.response.status_code /\ c.answer.response.status_code < 600)
    /\ c.answer.response.body.decodable

(* The comments GET failed: requests.get raised, or the status is not 200, *)
(* or the body does not decode.                                            *)
CommentsFailed(c) ==
    \/ c.answer.raised
    \/ c.answer.response.status_code # 200
    \/ ~ c.answer.response.body.decodable

(* C3 as stated: with include_comments, a successful primary GET and no    *)
(* comments key in its payload, any failure of the comments GET is         *)
(* swallowed: the tool returns Success with the primary payload, without a *)
(* comments key.                                                           *)
C3_CommentsFailureSwallowed ==
    (Clickup /\ Done /\ Len(calls) = 2 /\ CommentsFailed(calls[2])) =>
        /\ ret.success
        /\ ret.result = calls[1].answer.response.body.json
        /\ "comments" \notin DOMAIN ret.result

(* A failure of a warehouse tool is reported as its class demands *)
MappedByClass(t, a, e, r) ==
    IF IsInstance(e, "NotFound")
    THEN /\ r.error = "Not Found"
         /\ r.code = PyInt(404)
         /\ Len(r.message) > 1
         /\ r.message[Len(r.message)] = e.msg
         /\ t = "get_dataset_tables" =>
               \E i \in 1..(Len(r.message) - 1) : r.message[i] = a.dataset_id
    ELSE IF IsInstance(e, "GoogleAPIError")
    THEN /\ r.error = "Google API Error"
         /\ r.message = << e.msg >>
         /\ r.code = IF e.code.py = "int" THEN e.code ELSE PyInt(500)
    ELSE /\ r.error = "Execution Error"
         /\ r.message = << e.msg >>
         /\ r.code = PyInt(500)

(* C4 as stated: a failure at any step of a warehouse tool is mapped by    *)
(* class: not-found to Not Found / 404 with a prefixed message (naming the *)
(* dataset for get_dataset_tables), any other vendor failure to Google API *)
(* Error with the vendor's code, 500 when the vendor gives none, anything  *)
(* else to Execution Error / 500; the code is always an integer.           *)
C4_MappedByClass ==
    (tool \in WarehouseTools /\ Done /\ fault # NoFault) =>
        /\ ~ ret.success
        /\ ret.code.py = "int"
        /\ MappedByClass(tool, args, fault, ret)

(* C5: a failure of the primary GET of get_clickup_task is reported by     *)
(* kind: 401 as Authentication Error / 401, 404 as Not Found / 404, any    *)
(* other error status as ClickUp API Error with that status as code, a     *)
(* connection failure as Connection Error / 503, anything else as          *)
(* Execution Error / 500; exactly one of the five applies.                 *)
C5_PrimaryFailureMapping ==
    (Clickup /\ Done /\ Len(calls) = 1 /\ ~ PrimarySucceeded(calls[1])) =>
        LET answer == calls[1].answer
            status == answer.response.status_code
        IN  /\ ~ ret.success
            /\ ret.error \in { "Authentication Error", "Not Found", "ClickUp API Error",
                               "Connection Error", "Execution Error" }
            /\ IF answer.raised
               THEN IF answer.exc.cls = "ConnectionError"
                    THEN ret.error = "Connection Error" /\ ret.code = PyInt(503)
                    ELSE ret.error = "Execution Error" /\ ret.code = PyInt(500)
               ELSE IF status = 401
                    THEN ret.error = "Authentication Error" /\ ret.code = PyInt(401)
               ELSE IF status = 404
                    THEN ret.error = "Not Found" /\ ret.code = PyInt(404)
               ELSE IF 400 <= status /\ status < 600
                    THEN ret.error = "ClickUp API Error" /\ ret.code = PyInt(status)
               ELSE ret.error = "Execution Error" /\ ret.code = PyInt(500)

(* C5 witness: the stubbed 401 *)
C5_Witness ==
    /\ Clickup
    /\ Done
    /\ Len(calls) = 1
    /\ ~ calls[1].answer.raised
    /\ calls[1].answer.response.status_code = 401
    /\ ~ ret.success
    /\ ret.error = "Authentication Error"

(* The query submitted by the invocation in flight, when there is one *)
Submitted == Len(CallsOf("query")) > 0
SubmittedText == CallsOf("query")[1].text

(* The pieces of text t *)
Pieces(t) == { t[i] : i \in 1..Len(t) }

C7_ClientDatasetsText ==
    (tool = "get_client_datasets" /\ Submitted
        /\ (args.client_id # "" \/ args.client_name # "")) =>
        LET ci == args.client_id
            cn == args.client_name
            like == Occurrences(SubmittedText, << "schema_name LIKE '%" >>)
        IN  /\ Cardinality(like) = 1
            /\ \A i \in like :
                  OccursAt(SubmittedText,
                           << "schema_name LIKE '%", IF ci # "" THEN ci ELSE cn, "%'" >>, i)
            /\ (ci # "" /\ cn # "") => cn \notin Pieces(SubmittedText)
            /\ EndsWith(SubmittedText, << " ORDER BY last_modified_time DESC" >>)
            /\ " LIMIT 1000" \notin Pieces(SubmittedText)

(* C7 witness: a query was submitted with both identifiers given *)
C7_Witness ==
    /\ tool = "get_client_datasets"
    /\ args.client_id # ""
    /\ args.client_name # ""
    /\ Submitted

(* C8 as stated: get_dataset_tables renders the table path                 *)
(* P.dataset_id.INFORMATION_SCHEMA.TABLES, constructs the client under P   *)
(* and submits the query under P, where P is a project identifier: the     *)
(* project_id passed, or else the environment's, or else a fallback.       *)
C8_OneProjectEverywhere ==
    (tool = "get_dataset_tables" /\ Submitted) =>
        LET P == CallsOf("Client")[1].project
        IN  /\ P.py = "str"
            /\ "project_id" \in passed => P = args.project_id
            /\ ("project_id" \notin passed /\ "GOOGLE_PROJECT_ID" \in DOMAIN env) =>
                  P = PyStr(env["GOOGLE_PROJECT_ID"])
            /\ CallsOf("query")[1].project = P
            /\ Contains(SubmittedText,
                        << P.s, ".", args.dataset_id, ".INFORMATION_SCHEMA.TABLES" >>)
            /\ EndsWith(SubmittedText, << " ORDER BY table_name" >>)

(* C9: a warehouse tool returns all of the cursor or nothing.  A cursor    *)
(* drained to its end gives Success whose results are the rows it yielded, *)
(* in that order and as many (none for an empty cursor); a failure once    *)
(* draining has begun gives a Failure carrying no row.                     *)
C9_AllOrNothing ==
    (tool \in WarehouseTools /\ Done) =>
        /\ drain = "exhausted" =>
              /\ ret.success
              /\ Len(ret.results) = Len(yielded)
              /\ \A i \in 1..Len(yielded) :
                    /\ DOMAIN ret.results[i] = Pieces(yielded[i].keys)
                    /\ \A j \in 1..Len(yielded[i].keys) :
                          ret.results[i][yielded[i].keys[j]] = yielded[i].values[j]
        /\ drain = "failed" =>
              /\ ~ ret.success
              /\ DOMAIN ret = { "success", "error", "message", "code" }
        /\ ret.success => drain = "exhausted"

(* C9 witness: the cursor failed after yielding two different rows *)
C9_Witness ==
    /\ tool \in WarehouseTools
    /\ Done
    /\ drain = "failed"
    /\ Len(yielded) = 2
    /\ yielded[1] # yielded[2]
    /\ ~ ret.success

(* C10: get_clickup_task issues one GET on the task, first, with the       *)
(* include_subtasks parameter exactly when include_subtasks is true; it    *)
(* issues a second GET, on the comments, exactly when include_comments is  *)
(* true, the first GET succeeded and its payload has no comments field,    *)
(* once and after the first response; never more than two GETs, and none   *)
(* repeated.                                                               *)
C10_OutboundCalls ==
    Clickup =>
        /\ Len(calls) <= 2
        /\ \A i \in 1..Len(calls) : calls[i].op = "GET"
        /\ pc # "get_task" =>
              /\ Len(calls) >= 1
              /\ calls[1].url = << "https://api.clickup.com/api/v2/task/", args.task_id >>
              /\ ("include_subtasks" \in DOMAIN calls[1].params) <=> args.include_subtasks
              /\ args.include_subtasks => calls[1].params["include_subtasks"] = "true"
        /\ Len(calls) = 2 =>
              /\ calls[2].url
                    = << "https://api.clickup.com/api/v2/task/", args.task_id, "/comment" >>
              /\ calls[2].url # calls[1].url
              /\ PrimarySucceeded(calls[1])
        /\ Done =>
              (Len(calls) = 2 <=>
                  /\ args.include_comments
                  /\ PrimarySucceeded(calls[1])
                  /\ "comments" \notin DOMAIN calls[1].answer.response.body.json)
        /\ pc = "get_comments" =>
              /\ Len(calls) = 1
              /\ args.include_comments
              /\ PrimarySucceeded(calls[1])
              /\ "comments" \notin DOMAIN calls[1].answer.response.body.json

(* C10 witness: both GETs were issued, the first with include_subtasks,    *)
(* and the comments fetched by the second were merged.                     *)
C10_Witness ==
    /\ Clickup
    /\ Done
    /\ Len(calls) = 2
    /\ args.include_subtasks
    /\ ret.success
    /\ "comments" \in DOMAIN ret.result

====
